---- MODULE Spec2Model ----
(***************************************************************************)
(* A model of the backlink-outreach backend: the /scrape handler of        *)
(* app.py (validation, a pool of 3 workers, collection under a 12 second   *)
(* deadline) and the single-URL pipeline of web_scraper.py (validate,      *)
(* fetch, extract, courtesy delay, draft).                                  *)
(*                                                                         *)
(* Strings the code computes on (URLs, names) are sequences of one         *)
(* character strings, so that strip, replace, split and the regular        *)
(* expressions are computed character by character.  Fixed messages are    *)
(* TLA+ strings.                                                           *)
(***************************************************************************)
EXTENDS Integers, Sequences, FiniteSets, TLC

(***************************************************************************)
(* Bounds of the model.                                                    *)
(***************************************************************************)
\* the longest `urls` list a request carries
MaxUrls == 4
\* the longest `urls` list of a request whose servers and API may do anything
MaxRich == 1
\* a server answers within this many time units of the GET, or not before
\* the fetch timeout
MaxLatency == 1

(***************************************************************************)
(* Constants of the program.                                               *)
(***************************************************************************)
\* app.py:103  ThreadPoolExecutor(max_workers=3)
MaxWorkers == 3
\* app.py:116  as_completed(future_to_url, timeout=12)
CollectTimeout == 12
\* web_scraper.py:220  requests.get(..., timeout=10)
FetchTimeout == 10
\* web_scraper.py:255  time.sleep(1)
CourtesyDelay == 1

(***************************************************************************)
(* Character-level string helpers (Python str methods).                    *)
(***************************************************************************)
Min(S) == CHOOSE x \in S : \A y \in S : x <= y
Max(S) == CHOOSE x \in S : \A y \in S : x >= y

Lowers == <<"a","b","c","d","e","f","g","h","i","j","k","l","m",
            "n","o","p","q","r","s","t","u","v","w","x","y","z">>
Uppers == <<"A","B","C","D","E","F","G","H","I","J","K","L","M",
            "N","O","P","Q","R","S","T","U","V","W","X","Y","Z">>
Digits == {"0","1","2","3","4","5","6","7","8","9"}

Range(s) == {s[i] : i \in DOMAIN s}
IsLower(c) == c \in Range(Lowers)
IsUpper(c) == c \in Range(Uppers)
IsAlpha(c) == IsLower(c) \/ IsUpper(c)
ToUpper(c) == IF IsLower(c) THEN Uppers[CHOOSE i \in 1..26 : Lowers[i] = c] ELSE c
ToLower(c) == IF IsUpper(c) THEN Lowers[CHOOSE i \in 1..26 : Uppers[i] = c] ELSE c

\* s[i:] of Python, 1-based: the suffix starting at position i
From(s, i) == SubSeq(s, i, Len(s))

\* s.startswith(p) at position i
HasAt(s, p, i) == /\ i + Len(p) - 1 <= Len(s)
                  /\ \A k \in 1..Len(p) : s[i + k - 1] = p[k]

\* str.strip(): leading and trailing whitespace removed
Strip(s) ==
    LET keep == {i \in 1..Len(s) : s[i] # " "}
    IN  IF keep = {} THEN <<>> ELSE SubSeq(s, Min(keep), Max(keep))

\* str.replace(old, ""): every non-overlapping occurrence removed, left to right
RECURSIVE Remove(_, _)
Remove(s, old) ==
    IF s = <<>> THEN <<>>
    ELSE IF HasAt(s, old, 1) THEN Remove(From(s, Len(old) + 1), old)
    ELSE <<s[1]>> \o Remove(Tail(s), old)

\* str.replace(a, b) for single characters
ReplaceChar(s, a, b) == [i \in 1..Len(s) |-> IF s[i] = a THEN b ELSE s[i]]

\* str.split(sep)[0] for a single-character sep
SplitFirst(s, sep) ==
    LET at == {i \in 1..Len(s) : s[i] = sep}
    IN  IF at = {} THEN s ELSE SubSeq(s, 1, Min(at) - 1)

\* str.title(): the first letter of every run of letters upper case, the
\* other letters lower case
Title(s) ==
    [i \in 1..Len(s) |->
        IF i = 1 \/ ~IsAlpha(s[i - 1]) THEN ToUpper(s[i]) ELSE ToLower(s[i])]

\* s.find(sub) of Python, 1-based; 0 when absent
Find(s, sub) ==
    LET at == {i \in 1..Len(s) : HasAt(s, sub, i)}
    IN  IF at = {} THEN 0 ELSE Min(at)

Contains(s, sub) == Find(s, sub) # 0

LowerCase(s) == [i \in 1..Len(s) |-> ToLower(s[i])]

\* str.strip(chars)
StripChars(s, chars) ==
    LET keep == {i \in 1..Len(s) : s[i] \notin chars}
    IN  IF keep = {} THEN <<>> ELSE SubSeq(s, Min(keep), Max(keep))

(***************************************************************************)
(* URLs.                                                                   *)
(***************************************************************************)
UrlA == <<"h","t","t","p",":","/","/","w","w","w",".","a","b","-","c","d",".","c","o","/","x">>
UrlB == <<"h","t","t","p",":","/","/","e","f",".","i","o">>
UrlBad == <<"n","o","t"," ","a"," ","u","r","l">>
Urls == {UrlA, UrlB, UrlBad}

SchemeChars == Range(Lowers) \cup Range(Uppers) \cup Digits \cup {"+", "-", "."}

\* urllib.parse.urlsplit: what is left of the URL once a scheme is split off
AfterScheme(url) ==
    LET i == Find(url, <<":">>)
    IN  IF /\ i > 1
           /\ IsAlpha(url[1])
           /\ \A k \in 1..(i - 1) : url[k] \in SchemeChars
        THEN From(url, i + 1)
        ELSE url

\* urlparse(url).netloc
Netloc(url) ==
    LET rest == AfterScheme(url)
    IN  IF HasAt(rest, <<"/","/">>, 1)
        THEN LET body == From(rest, 3)
                 ends == {i \in 1..Len(body) : body[i] \in {"/", "?", "#"}}
             IN  IF ends = {} THEN body ELSE SubSeq(body, 1, Min(ends) - 1)
        ELSE <<>>

\* validators.url(url): a scheme, "://", a dotted host, no whitespace
ValidUrl(url) ==
    LET host == Netloc(url)
        dots == {i \in 1..Len(host) : host[i] = "."}
    IN  /\ \/ HasAt(url, <<"h","t","t","p",":","/","/">>, 1)
           \/ HasAt(url, <<"h","t","t","p","s",":","/","/">>, 1)
        /\ \A i \in 1..Len(url) : url[i] # " "
        /\ dots # {}
        /\ \A i \in dots : i > 1 /\ i < Len(host)

\* urlparse(url).netloc.replace('www.', '')
HostOf(url) == Remove(Netloc(url), <<"w","w","w",".">>)

\* url.replace('www.', '').split('/')[0]
HostToken(url) == SplitFirst(Remove(url, <<"w","w","w",".">>), "/")

\* urljoin(base_url, href) for an absolute href, a rooted one and a relative one
UrlJoin(base, href) ==
    IF Contains(href, <<":","/","/">>) THEN href
    ELSE LET cut  == Find(base, <<":","/","/">>)
             root == SubSeq(base, 1, cut + 2) \o Netloc(base)
         IN  IF HasAt(href, <<"/">>, 1) THEN root \o href
             ELSE LET slashes == {i \in (Len(root) + 1)..Len(base) : base[i] = "/"}
                  IN  IF slashes = {} THEN root \o <<"/">> \o href
                      ELSE SubSeq(base, 1, Max(slashes)) \o href

(***************************************************************************)
(* Fetched pages.  A page is what BeautifulSoup and the regular            *)
(* expressions see of it: the tags the extractors look up and the matches  *)
(* of each pattern in its text.                                            *)
(*   og_site_name, og_title, title: [present, text]; text is the content   *)
(*     attribute of a meta tag, the .string of <title> (empty when None)   *)
(*   email_matches: the matches of email_pattern, in order                 *)
(*   phone_matches: for each of the four patterns, its matches             *)
(*   anchors: the href of every <a>, in document order                     *)
(*   redirect: the URL the GET was redirected to (empty when it was not)   *)
(*   schema: the first ld+json script: [present, parses, is_dict, kind,    *)
(*     text, parts]; kind is the type of data['address']                   *)
(*   text_address: for the US and the UK pattern, its first match in the   *)
(*     page text ("" when none)                                            *)
(*   containers: the same for each address/location/contact element        *)
(***************************************************************************)
NoTag == [present |-> FALSE, text |-> <<>>]
Tag(text) == [present |-> TRUE, text |-> text]
NoSchema == [present |-> FALSE, parses |-> FALSE, is_dict |-> FALSE,
             kind |-> "none", text |-> "", parts |-> <<>>]

\* a business site: title with a suffix, contacts, a rooted facebook link
PagePlain ==
    [og_site_name |-> NoTag, og_title |-> NoTag,
     title |-> Tag(<<"A","b"," ","C","d"," ","|"," ","H","o","m","e">>),
     email_matches |-> <<<<"i","n","f","o","@","a","b","-","c","d",".","c","o",".">>, <<"i","n","f","o","@","a","b","-","c","d",".","c","o">>, <<"x","@","y">>>>,
     phone_matches |-> << <<>>, <<>>, <<"555-123-4567">>, <<>> >>,
     anchors |-> <<<<"/","a","b","o","u","t">>, <<"/","F","a","c","e","b","o","o","k",".","c","o","m","/","a","b","c","d">>, <<"h","t","t","p","s",":","/","/","x",".","c","o","m","/","a","b","c","d">>>>,
     redirect |-> <<>>,
     schema |-> NoSchema,
     text_address |-> <<"", "">>,
     containers |-> <<>>]

\* the title is only a suffix; the address is in linked data
PageSuffix ==
    [og_site_name |-> NoTag, og_title |-> Tag(<<>>),
     title |-> Tag(<<" ","|"," ","H","o","m","e">>),
     email_matches |-> <<>>,
     phone_matches |-> << <<>>, <<>>, <<>>, <<>> >>,
     anchors |-> <<>>,
     redirect |-> <<>>,
     schema |-> [present |-> TRUE, parses |-> TRUE, is_dict |-> TRUE,
                 kind |-> "dict", text |-> "",
                 parts |-> <<"1 High St", "", "Leeds", "LS1 4AP">>],
     text_address |-> <<"", "">>,
     containers |-> <<>>]

\* the site name is only whitespace; the address is in the page text
PageBlank ==
    [og_site_name |-> Tag(<<" "," ">>), og_title |-> Tag(<<"E","f">>),
     title |-> NoTag,
     email_matches |-> <<<<"a","@","e","f",".","i","o">>>>,
     phone_matches |-> << <<"+44 555 123 4567">>, <<>>, <<"555 123 4567">>, <<>> >>,
     anchors |-> <<<<"h","t","t","p",":","/","/","l","i","n","k","e","d","i","n",".","c","o","m","/","e","f">>>>,
     redirect |-> <<"h","t","t","p",":","/","/","e","f",".","i","o","/","h","o","m","e","/">>,
     schema |-> [present |-> TRUE, parses |-> FALSE, is_dict |-> FALSE,
                 kind |-> "none", text |-> "", parts |-> <<>>],
     text_address |-> <<"", "2 Mill Road, Leeds LS1 4AP">>,
     containers |-> <<>>]

\* no name tag at all: the name comes from the domain
PageBare ==
    [og_site_name |-> NoTag, og_title |-> NoTag, title |-> Tag(<<>>),
     email_matches |-> <<>>,
     phone_matches |-> << <<>>, <<>>, <<>>, <<>> >>,
     anchors |-> <<>>,
     redirect |-> <<>>,
     schema |-> NoSchema,
     text_address |-> <<"", "">>,
     containers |-> << <<"", "">>, <<"3 Elm St, Austin TX 73301", "">> >>]

Pages == [plain |-> PagePlain, suffix |-> PageSuffix,
          blank |-> PageBlank, bare |-> PageBare]
PageNames == DOMAIN Pages

(***************************************************************************)
(* Field extractors (web_scraper.py).                                      *)
(***************************************************************************)
\* validators.email(email): one "@", a local part, a dotted domain
ValidEmail(email) ==
    LET ats  == {i \in 1..Len(email) : email[i] = "@"}
        at   == Min(ats)
        dots == {i \in (at + 1)..Len(email) : email[i] = "."}
    IN  /\ Cardinality(ats) = 1
        /\ at > 1
        /\ dots # {}
        /\ \A i \in dots : i > at + 1 /\ i < Len(email)

extract_emails(page) ==
    {StripChars(m, {".", ","}) : m \in
        {x \in Range(page.email_matches) : ValidEmail(StripChars(x, {".", ","}))}}

extract_phones(page) ==
    UNION {Range(page.phone_matches[k]) : k \in DOMAIN page.phone_matches}

SocialPatterns ==
    [facebook  |-> {<<"f","a","c","e","b","o","o","k",".","c","o","m">>},
     twitter   |-> {<<"t","w","i","t","t","e","r",".","c","o","m">>, <<"x",".","c","o","m">>},
     linkedin  |-> {<<"l","i","n","k","e","d","i","n",".","c","o","m">>},
     instagram |-> {<<"i","n","s","t","a","g","r","a","m",".","c","o","m">>}]

\* the anchors whose href the platform's pattern finds (re.I)
SocialHits(page, platform) ==
    {i \in DOMAIN page.anchors :
        \E pat \in SocialPatterns[platform] : Contains(LowerCase(page.anchors[i]), pat)}

extract_social_links(page, base_url) ==
    LET found == {p \in DOMAIN SocialPatterns : SocialHits(page, p) # {}}
    IN  [p \in found |-> UrlJoin(base_url, page.anchors[Min(SocialHits(page, p))])]

\* re.sub(r'\s*[|-]\s*.+$', '', name.strip()): the leftmost separator that
\* has a character after it is cut with the whitespace before it
CleanName(name) ==
    LET s    == Strip(name)
        seps == {p \in 1..(Len(s) - 1) : s[p] \in {"|", "-"}}
    IN  IF seps = {} THEN s
        ELSE LET p     == Min(seps)
                 solid == {i \in 1..(p - 1) : s[i] # " "}
             IN  SubSeq(s, 1, IF solid = {} THEN 0 ELSE Max(solid))

\* the domain fallback of extract_business_name
DomainName(url) ==
    LET netloc == Netloc(url)
        domain == IF HasAt(netloc, <<"w","w","w",".">>, 1) THEN From(netloc, 5) ELSE netloc
    IN  Title(ReplaceChar(SplitFirst(domain, "."), "-", " "))

extract_business_name(page, url) ==
    LET name_locations == <<page.og_site_name, page.og_title, page.title>>
        named == {i \in 1..3 : name_locations[i].present
                               /\ name_locations[i].text # <<>>}
    IN  IF named # {} THEN CleanName(name_locations[Min(named)].text)
        ELSE DomainName(url)

\* ', '.join(parts)
RECURSIVE Join(_)
Join(parts) ==
    IF Len(parts) = 0 THEN <<>>
    ELSE IF Len(parts) = 1 THEN parts
    ELSE <<parts[1], ", ">> \o Join(Tail(parts))

None == [some |-> FALSE, val |-> <<>>]
Some(v) == [some |-> TRUE, val |-> v]

\* the first pattern of a (US, UK) pair of matches that matched
FirstMatch(pair) ==
    IF pair[1] # "" THEN Some(<<pair[1]>>)
    ELSE IF pair[2] # "" THEN Some(<<pair[2]>>)
    ELSE None

\* an address is the sequence of the pieces its string is made of
extract_address(page) ==
    LET schema  == page.schema
        parts   == SelectSeq(schema.parts, LAMBDA x : x # "")
        linked  == IF schema.present /\ schema.parses /\ schema.is_dict
                   THEN IF schema.kind = "str" /\ schema.text # ""
                        THEN Some(<<schema.text>>)
                        ELSE IF schema.kind = "dict" /\ parts # <<>>
                        THEN Some(Join(parts))
                        ELSE None
                   ELSE None
        inText  == FirstMatch(page.text_address)
        hits    == {i \in DOMAIN page.containers : FirstMatch(page.containers[i]).some}
    IN  IF linked.some THEN linked
        ELSE IF inText.some THEN inText
        ELSE IF hits # {} THEN FirstMatch(page.containers[Min(hits)])
        ELSE None

(***************************************************************************)
(* Records of a response.                                                  *)
(***************************************************************************)
\* str(e) of an exception: a fixed text and the value formatted into it
Err(msg, arg) == [msg |-> msg, arg |-> arg]

\* web_scraper.py:245-251
BusinessRecord(business_name, emails, phones, social_links, url) ==
    [business_name |-> business_name, emails |-> emails, phones |-> phones,
     social_links |-> social_links, url |-> url]

\* the dict of web_scraper.py:261-265, 268-272 and app.py:69-73, 77-81, 124-128
ErrorRecord(url, error, business_name) ==
    [url |-> url, error |-> error, business_name |-> business_name]

\* the truth value of a dict
Truthy(d) == DOMAIN d # {}

NoResult == [pending |-> TRUE]

(***************************************************************************)
(* scrape_url (web_scraper.py:205-272), cut at its blocking calls.         *)
(***************************************************************************)
\* what the server does with the GET: it serves one of Pages, or fails
FetchFailures == {"failed", "garbled"}
FetchOutcomes == PageNames \cup FetchFailures

\* scrape_url without the check of lines 210-212
scrape_url_validate_skipped(url) == NoResult

\* lines 210-212 and the handler of lines 266-272: the result when the URL
\* is not valid, NoResult when the GET is to be made
scrape_url_validate(url) ==
    IF ~ValidUrl(url)
    THEN ErrorRecord(url, Err("Invalid URL: ", url), HostOf(url))
    ELSE NoResult

\* the timeout handler returning the fields of a record with its error
scrape_url_timeout_with_contacts(url) ==
    [url |-> url, error |-> Err("Request timed out", <<>>),
     business_name |-> HostOf(url), emails |-> {}, phones |-> {},
     social_links |-> <<>>]

\* lines 259-265: requests.Timeout
scrape_url_timeout(url) ==
    ErrorRecord(url, Err("Request timed out", <<>>), HostOf(url))

\* lines 222-257 once the GET has returned, and the handler of lines 266-272
scrape_url_fetched(url, outcome) ==
    IF outcome = "failed"
    THEN ErrorRecord(url, Err("HTTP error for url: ", url), HostOf(url))
    ELSE IF outcome = "garbled"
    THEN ErrorRecord(url, Err("parser error", <<>>), HostOf(url))
    ELSE LET soup     == Pages[outcome]
             base_url == IF soup.redirect = <<>> THEN url ELSE soup.redirect
         IN  BusinessRecord(extract_business_name(soup, url),
                            extract_emails(soup),
                            extract_phones(soup),
                            extract_social_links(soup, base_url),
                            url)

\* scrape_url on the URLs of the model, computed once
Validated == [u \in Urls |-> scrape_url_validate(u)]
TimedOut == [u \in Urls |-> scrape_url_timeout(u)]
Fetched == [u \in Urls |-> [o \in FetchOutcomes |-> scrape_url_fetched(u, o)]]

(***************************************************************************)
(* generate_outreach_email (web_scraper.py:274-340).                       *)
(***************************************************************************)
\* what the completion API does with a call
ApiOutcomes == {"text", "AuthenticationError", "APIError", "RateLimitError",
                "empty", "TypeError"}

\* line 280
MissingParameters(business_name, company_name, backlink_url) ==
    business_name = <<>> \/ company_name = "" \/ backlink_url = ""

\* lines 276-320: the exception raised in the try block, "" when none
DraftException(business_name, company_name, backlink_url, api) ==
    IF MissingParameters(business_name, company_name, backlink_url)
    THEN [type |-> "ValueError", msg |-> "Missing required parameters for email generation"]
    ELSE IF api = "empty"
    THEN [type |-> "ValueError", msg |-> "No response from OpenAI API"]
    ELSE IF api = "text" THEN [type |-> "", msg |-> ""]
    ELSE [type |-> api, msg |-> "api error"]

Returned(v) == [raised |-> FALSE, value |-> v]
Raised(v) == [raised |-> TRUE, value |-> v]

\* the handler of lines 322-340 letting an exception of an unknown type
\* through
generate_outreach_email_reraising(business_name, company_name, backlink_url, api) ==
    LET e == DraftException(business_name, company_name, backlink_url, api)
    IN  IF e.type = "" THEN Returned("Dear team, ...")
        ELSE IF e.type = "AuthenticationError"
        THEN Returned("Error: OpenAI API key is invalid")
        ELSE IF e.type = "APIError"
        THEN Returned("Error: OpenAI API is currently unavailable")
        ELSE IF e.type = "RateLimitError"
        THEN Returned("Error: OpenAI API rate limit exceeded")
        ELSE IF e.type = "ValueError"
        THEN Returned("Error: " \o e.msg)
        ELSE Raised(e.msg)

\* lines 322-340: every exception becomes the returned string
generate_outreach_email(business_name, company_name, backlink_url, api) ==
    LET e == DraftException(business_name, company_name, backlink_url, api)
    IN  IF e.type = "" THEN Returned("Dear team, ...")
        ELSE IF e.type = "AuthenticationError"
        THEN Returned("Error: OpenAI API key is invalid")
        ELSE IF e.type = "APIError"
        THEN Returned("Error: OpenAI API is currently unavailable")
        ELSE IF e.type = "RateLimitError"
        THEN Returned("Error: OpenAI API rate limit exceeded")
        ELSE IF e.type = "ValueError"
        THEN Returned("Error: " \o e.msg)
        ELSE Returned("Error: An unexpected error occurred while generating the email")

(***************************************************************************)
(* scrape_single_url (app.py:49-81) once scrape_url has returned `result`. *)
(***************************************************************************)
\* line 58: the record goes on to drafting
WantsDraft(result) == Truthy(result) /\ "error" \notin DOMAIN result

scrape_single_url_return(url, result, company_name, backlink_url, api) ==
    IF ~Truthy(result)
    THEN ErrorRecord(url, Err("No data could be extracted", <<>>), HostToken(url))
    ELSE IF "error" \in DOMAIN result THEN result
    ELSE LET mail == generate_outreach_email(result.business_name, company_name,
                                             backlink_url, api)
         IN  IF mail.raised
             THEN ErrorRecord(url, Err(mail.value, <<>>), HostToken(url))
             ELSE [k \in DOMAIN result \cup {"outreach_email"} |->
                      IF k = "outreach_email" THEN mail.value ELSE result[k]]

(***************************************************************************)
(* The /scrape request (app.py:83-148).                                    *)
(***************************************************************************)
\* a JSON value under the key `urls`: a list, or something that is not one
List(items) == [list |-> TRUE, items |-> items]
NotAList(items) == [list |-> FALSE, items |-> items]

UrlLists(from, n) == UNION {[1..k -> from] : k \in 1..n}

\* short requests: any URL, and every key may be missing
Requests ==
    LET values == {List(<<>>), NotAList(<<UrlA>>)}
                    \cup {List(l) : l \in UrlLists(Urls, MaxRich)}
        full   == [urls : values, companyName : {"Acme"},
                   backlinkUrl : {"https://acme.example/guide"}]
    IN  UNION {{[k \in keys |-> r[k]] : r \in full} :
                 keys \in SUBSET {"urls", "companyName", "backlinkUrl"}}

\* batches: a valid and an invalid URL, repeated, with the campaign given
Batches ==
    [urls : {List(l) : l \in UrlLists({UrlA, UrlBad}, MaxUrls)},
     companyName : {"Acme"}, backlinkUrl : {"https://acme.example/guide"}]

\* data.get(key, default)
Get(d, key, default) == IF key \in DOMAIN d THEN d[key] ELSE default

VARIABLES
    data,       \* request.json
    world,      \* what the servers and the completion API of this run may do
    pc,         \* where the handler is: recv, submit, collect, exit, responded
    task,       \* per submitted URL: phase, timer, fetches, drafts, result
    queue,      \* the executor's work queue
    yielded,    \* the futures as_completed has handed to the loop
    results,    \* the handler's `results`
    timedOut,   \* as_completed has raised TimeoutError
    late,       \* the tasks still queued or running when it raised
    now,        \* time since as_completed was called, up to CollectTimeout
    response    \* what the handler returned

vars == <<data, world, pc, task, queue, yielded, results, timedOut, late, now, response>>

urls == Get(data, "urls", List(<<>>))
company_name == Get(data, "companyName", "")
backlink_url == Get(data, "backlinkUrl", "")

N == Len(urls.items)
Tasks == DOMAIN task

NoResponse == [status |-> 0, body |-> <<>>]

\* a task: where its thread is, the time it has been blocked there, the
\* GETs and API calls it has made, the page it got, what the API did and
\* the dict it holds
NewTask == [phase |-> "new", timer |-> 0, fetches |-> 0, drafts |-> 0,
            page |-> "", api |-> "", result |-> NoResult]

Running == {i \in Tasks : task[i].phase \in {"fetch", "sleep", "draft"}}
Done == {i \in Tasks : task[i].phase = "done"}

\* a world: the outcomes a GET may have and the ways an API call may end
FullWorld == [outcomes |-> FetchOutcomes, apis |-> ApiOutcomes]
LeanWorlds == {[outcomes |-> {"plain", "failed"}, apis |-> {"text"}],
               [outcomes |-> {"plain"}, apis |-> {"RateLimitError"}]}

Start(requests, worlds) ==
    /\ data \in requests
    /\ world \in worlds
    /\ pc = "recv"
    /\ task = <<>>
    /\ queue = <<>>
    /\ yielded = {}
    /\ results = <<>>
    /\ timedOut = FALSE
    /\ late = {}
    /\ now = 0
    /\ response = NoResponse

\* a short request in a world where anything may happen, or a batch in a
\* world where little does
Init == Start(Requests, {FullWorld}) \/ Start(Batches, LeanWorlds)

\* the check of line 94 without its isinstance test
ValidUrls_untyped(u) == u.items # <<>>

\* lines 94-96
ValidUrls(u) == u.list /\ u.items # <<>>

\* lines 87-98: the request is read and validated
Validate ==
    /\ pc = "recv"
    /\ IF ValidUrls(urls)
       THEN /\ pc' = "submit"
            /\ response' = response
       ELSE /\ pc' = "responded"
            /\ response' = [status |-> 400,
                            body |-> [error |-> Err("Invalid input: urls must be a non-empty array", <<>>)]]
    /\ UNCHANGED <<data, world, task, queue, yielded, results, timedOut, late, now>>

\* lines 105-113: executor.submit for the next URL of the list; after the
\* last one as_completed is called and its deadline starts
Submit ==
    /\ pc = "submit"
    /\ LET i == Len(task) + 1
       IN  /\ task' = Append(task, [NewTask EXCEPT !.phase = "queued"])
           /\ queue' = Append(queue, i)
           /\ pc' = IF i = N THEN "collect" ELSE "submit"
    /\ UNCHANGED <<data, world, yielded, results, timedOut, late, now, response>>

\* a pool that starts a thread for every work item
WorkerFree_unbounded == TRUE

\* the pool has a worker that is not running a task
WorkerFree == Cardinality(Running) < MaxWorkers

\* a worker takes the next work item and runs scrape_single_url up to the
\* GET of scrape_url (web_scraper.py:207-221)
StartTask ==
    /\ queue # <<>>
    /\ WorkerFree
    /\ LET i == Head(queue)
           r == Validated[urls.items[i]]
       IN  task' = [task EXCEPT ![i] =
                IF r = NoResult
                THEN [@ EXCEPT !.phase = "fetch", !.timer = 0, !.fetches = @ + 1]
                ELSE [@ EXCEPT !.phase = "done",
                       !.result = scrape_single_url_return(urls.items[i], r,
                                      company_name, backlink_url, "none")]]
    /\ queue' = Tail(queue)
    /\ UNCHANGED <<data, world, pc, yielded, results, timedOut, late, now, response>>

\* scrape_url returns `r`; scrape_single_url goes on to draft (the call to
\* the API is made unless a parameter is missing) or returns
AfterScrape(i, r) ==
    IF WantsDraft(r) /\ ~MissingParameters(r.business_name, company_name, backlink_url)
    THEN [task[i] EXCEPT !.phase = "draft", !.timer = 0, !.drafts = @ + 1, !.result = r]
    ELSE [task[i] EXCEPT !.phase = "done", !.timer = 0,
            !.result = scrape_single_url_return(urls.items[i], r,
                           company_name, backlink_url, "none")]

\* the GET returns or fails (web_scraper.py:222-252); a page goes on to the
\* courtesy delay
FetchReturn(i, outcome) ==
    /\ task[i].phase = "fetch"
    /\ task[i].timer <= MaxLatency
    /\ LET r == Fetched[urls.items[i]][outcome]
       IN  task' = [task EXCEPT ![i] =
                IF "error" \in DOMAIN r THEN AfterScrape(i, r)
                ELSE [@ EXCEPT !.phase = "sleep", !.timer = 0, !.page = outcome,
                                !.result = r]]
    /\ UNCHANGED <<data, world, pc, queue, yielded, results, timedOut, late, now, response>>

\* the GET runs into its timeout (web_scraper.py:220, 259-265)
FetchTimedOut(i) ==
    /\ task[i].phase = "fetch"
    /\ task[i].timer = FetchTimeout
    /\ task' = [task EXCEPT ![i] = AfterScrape(i, TimedOut[urls.items[i]])]
    /\ UNCHANGED <<data, world, pc, queue, yielded, results, timedOut, late, now, response>>

\* time.sleep(1) is over and scrape_url returns (web_scraper.py:255-257)
SleepDone(i) ==
    /\ task[i].phase = "sleep"
    /\ task[i].timer = CourtesyDelay
    /\ task' = [task EXCEPT ![i] = AfterScrape(i, task[i].result)]
    /\ UNCHANGED <<data, world, pc, queue, yielded, results, timedOut, late, now, response>>

\* the completion API answers (web_scraper.py:302-340, app.py:60-66)
DraftReturn(i, api) ==
    /\ task[i].phase = "draft"
    /\ task' = [task EXCEPT ![i] =
            [@ EXCEPT !.phase = "done", !.api = api,
               !.result = scrape_single_url_return(urls.items[i], task[i].result,
                              company_name, backlink_url, api)]]
    /\ UNCHANGED <<data, world, pc, queue, yielded, results, timedOut, late, now, response>>

\* lines 117-139 for a task that returned `r` (no task raises: scrape_single_url
\* catches every Exception)
Collected(rs, r) == IF Truthy(r) THEN Append(rs, r) ELSE rs

\* lines 116-139: as_completed yields a finished future
CollectOne(i) ==
    /\ pc = "collect"
    /\ i \in Done \ yielded
    /\ yielded' = yielded \cup {i}
    /\ results' = Collected(results, task[i].result)
    /\ pc' = IF yielded' = 1..N THEN "exit" ELSE "collect"
    /\ UNCHANGED <<data, world, task, queue, timedOut, late, now, response>>

\* line 116: the deadline has passed with futures not yet yielded;
\* as_completed raises TimeoutError out of the for statement
DeadlineExpire ==
    /\ pc = "collect"
    /\ now >= CollectTimeout
    /\ yielded # 1..N
    /\ timedOut' = TRUE
    /\ late' = Tasks \ Done
    /\ pc' = "exit"
    /\ UNCHANGED <<data, world, task, queue, yielded, results, now, response>>

\* the return of lines 143 and 145-148 with an executor that is shut down
\* without waiting for its tasks
Respond_unjoined ==
    /\ pc = "exit"
    /\ response' = IF timedOut
                   THEN [status |-> 500,
                         body |-> [error |-> Err("futures unfinished",
                                                 <<N - Cardinality(yielded), N>>)]]
                   ELSE [status |-> 200, body |-> results]
    /\ pc' = "responded"
    /\ UNCHANGED <<data, world, task, queue, yielded, results, timedOut, late, now>>

\* line 103: leaving the with block waits for every submitted task; then
\* line 143 returns the list, or lines 145-148 the caught TimeoutError
Respond ==
    /\ pc = "exit"
    /\ queue = <<>>
    /\ Done = Tasks
    /\ response' = IF timedOut
                   THEN [status |-> 500,
                         body |-> [error |-> Err("futures unfinished",
                                                 <<N - Cardinality(yielded), N>>)]]
                   ELSE [status |-> 200, body |-> results]
    /\ pc' = "responded"
    /\ UNCHANGED <<data, world, task, queue, yielded, results, timedOut, late, now>>

\* a step that takes no time is enabled: time does not pass before it
Urgent ==
    \/ pc \in {"recv", "submit"}
    \/ queue # <<>> /\ WorkerFree
    \/ \E i \in Tasks : task[i].phase = "fetch" /\ task[i].timer = FetchTimeout
    \/ \E i \in Tasks : task[i].phase = "sleep" /\ task[i].timer = CourtesyDelay
    \/ pc = "collect" /\ Done \ yielded # {}
    \/ pc = "collect" /\ now >= CollectTimeout
    \/ pc = "exit" /\ Done = Tasks

\* one time unit passes for the handler and for every blocked task
Tick ==
    /\ ~Urgent
    /\ Running # {}
    /\ now' = IF now < CollectTimeout THEN now + 1 ELSE now
    /\ task' = [i \in Tasks |->
                  IF task[i].phase \in {"fetch", "sleep"}
                  THEN [task[i] EXCEPT !.timer = @ + 1]
                  ELSE task[i]]
    /\ UNCHANGED <<data, world, pc, queue, yielded, results, timedOut, late, response>>

Next ==
    \/ Validate
    \/ Submit
    \/ StartTask
    \/ \E i \in Tasks, o \in world.outcomes : FetchReturn(i, o)
    \/ \E i \in Tasks : FetchTimedOut(i)
    \/ \E i \in Tasks : SleepDone(i)
    \/ \E i \in Tasks, a \in world.apis : DraftReturn(i, a)
    \/ \E i \in Tasks : CollectOne(i)
    \/ DeadlineExpire
    \/ Respond
    \/ Tick

Spec == Init /\ [][Next]_vars

\* every thread that can run does, time passes, and a call to the
\* completion API ends
Fairness ==
    /\ WF_vars(Validate)
    /\ WF_vars(Submit)
    /\ WF_vars(StartTask)
    /\ WF_vars(\E i \in Tasks : FetchTimedOut(i))
    /\ WF_vars(\E i \in Tasks : SleepDone(i))
    /\ WF_vars(\E i \in Tasks, a \in world.apis : DraftReturn(i, a))
    /\ WF_vars(\E i \in Tasks : CollectOne(i))
    /\ WF_vars(DeadlineExpire)
    /\ WF_vars(Respond)
    /\ WF_vars(Tick)

FairSpec == Spec /\ Fairness

\* the pool alone: a batch longer than the pool, of a valid URL (the first
\* may be invalid), its server serving a page and the API a text
PoolBatches ==
    [urls : {List(l) : l \in {x \in [1..MaxUrls -> {UrlA, UrlBad}] :
                                \A i \in 2..MaxUrls : x[i] = UrlA}},
     companyName : {"Acme"}, backlinkUrl : {"https://acme.example/guide"}]
PoolInit == Start(PoolBatches, {[outcomes |-> {"plain"}, apis |-> {"text"}]})
PoolSpec == PoolInit /\ [][Next]_vars /\ Fairness

(***************************************************************************)
(* Properties.                                                             *)
(***************************************************************************)
Responded == pc = "responded"

\* the request passes the check of app.py:94
Accepted ==
    /\ "urls" \in DOMAIN data
    /\ data.urls.list
    /\ data.urls.items # <<>>

\* the response is the list of records
IsList == response.status = 200

\* how often `url` is the url of a record of the list
Occurs(body, url) == Cardinality({k \in DOMAIN body : body[k].url = url})

\* how often `url` is in the request
Asked(url) == Cardinality({i \in 1..N : urls.items[i] = url})

\* C1: for every accepted request with N URLs, however the tasks complete
\* and whenever the deadline passes, the response is a list of exactly N
\* records and every input URL is the url of as many records as it has
\* entries in the request.
C1_OneRecordPerUrl ==
    (Responded /\ Accepted) =>
        /\ IsList
        /\ Len(response.body) = N
        /\ \A u \in Urls : Occurs(response.body, u) = Asked(u)

\* the dict of app.py:124-128
ProcessingTimedOut(url) ==
    ErrorRecord(url, Err("Processing timed out", <<>>), HostToken(url))

\* C2: when the deadline passes with tasks unfinished, the response is a
\* list that holds a "Processing timed out" record for each of them and
\* the records collected before the deadline, and the unfinished tasks
\* are left to run to their end.
C2_TimeoutRecords ==
    (Responded /\ timedOut /\ late # {}) =>
        /\ IsList
        /\ \A i \in late :
              \E k \in DOMAIN response.body :
                  response.body[k] = ProcessingTimedOut(urls.items[i])
        /\ \A k \in DOMAIN results :
              \E j \in DOMAIN response.body : response.body[j] = results[k]
        /\ Done = Tasks

\* C3: every record of a response has a non-empty business_name.
C3_NameNeverEmpty ==
    (Responded /\ IsList) =>
        \A k \in DOMAIN response.body : response.body[k].business_name # <<>>

\* the tasks whose pipeline ended in an ExtractionError
Failed == {i \in Done : "error" \in DOMAIN task[i].result}

MissingParametersMail == "Error: Missing required parameters for email generation"

C5_FailuresStayLocal ==
    (Responded /\ Accepted /\ Failed = Tasks) =>
        /\ IsList
        /\ \A i \in Tasks :
              /\ task[i].result.url = urls.items[i]
              /\ Occurs(response.body, urls.items[i]) = Asked(urls.items[i])
              /\ \E k \in DOMAIN response.body : response.body[k] = task[i].result

\* validators.url and extract_address on the URLs and pages of the model,
\* computed once
IsValidUrl == [u \in Urls |-> ValidUrl(u)]
AddressOf == [p \in PageNames |-> extract_address(Pages[p])]

\* the tasks that fetched a page, and the record extracted from it
Scraped == {i \in Done : task[i].page # ""}
Extracted(i) == Fetched[urls.items[i]][task[i].page]

\* the strings generate_outreach_email returns for a failure
DraftErrors ==
    {"Error: OpenAI API key is invalid",
     "Error: OpenAI API is currently unavailable",
     "Error: OpenAI API rate limit exceeded",
     "Error: Missing required parameters for email generation",
     "Error: No response from OpenAI API",
     "Error: An unexpected error occurred while generating the email"}

\* C6: when a page was extracted and drafting failed (a parameter missing,
\* or the API call ending in anything but a text), the task's record is a
\* BusinessRecord: it has no error field, its outreach_email is one of the
\* error strings, every extracted field is in it unchanged, and it is the
\* record the response carries.
C6_DraftFailureKeepsRecord ==
    \A i \in Scraped :
        task[i].api # "text" =>
            LET r == task[i].result
                e == Extracted(i)
            IN  /\ "error" \notin DOMAIN r
                /\ DOMAIN r = DOMAIN e \cup {"outreach_email"}
                /\ r.outreach_email \in DraftErrors
                /\ \A k \in DOMAIN e : r[k] = e[k]
                /\ (Responded /\ IsList) =>
                      \E k \in DOMAIN response.body : response.body[k] = r

\* a page with contacts was extracted, the API failed on authentication,
\* and the response has been sent
C6_Witness ==
    /\ Responded
    /\ IsList
    /\ \E i \in Scraped :
          /\ task[i].api = "AuthenticationError"
          /\ task[i].result.emails # {}
          /\ task[i].result.outreach_email = "Error: OpenAI API key is invalid"

\* C7: no task makes more than one GET; a task whose URL is not valid
\* makes none, and its record is an ExtractionError with the
\* "Invalid URL" message for that URL.
C7_ValidateBeforeFetch ==
    \A i \in Tasks :
        /\ task[i].fetches <= 1
        /\ task[i].fetches = 1 => IsValidUrl[urls.items[i]]
        /\ (~IsValidUrl[urls.items[i]] /\ i \in Done) =>
              /\ "error" \in DOMAIN task[i].result
              /\ task[i].result.error = Err("Invalid URL: ", urls.items[i])
              /\ task[i].result.url = urls.items[i]

\* a batch with an invalid URL, rejected without a GET, and a valid one,
\* fetched once, has been answered
C7_Witness ==
    /\ Responded
    /\ \E i \in Tasks : ~IsValidUrl[urls.items[i]] /\ task[i].fetches = 0
                        /\ task[i].result.error.msg = "Invalid URL: "
    /\ \E j \in Tasks : task[j].fetches = 1

ContactFields == {"emails", "phones", "social_links"}

WellShaped(r) ==
    IF "error" \in DOMAIN r THEN DOMAIN r \cap ContactFields = {}
    ELSE ContactFields \subseteq DOMAIN r

\* C8: a record with an error field has none of emails, phones and
\* social_links, and a record without one has all three; it holds of the
\* dict every finished task returned and of every record of a response.
C8_TwoShapes ==
    /\ \A i \in Done : WellShaped(task[i].result)
    /\ (Responded /\ IsList) =>
          \A k \in DOMAIN response.body : WellShaped(response.body[k])

\* a response with the record of a fetch timeout and a BusinessRecord
C8_Witness ==
    /\ Responded
    /\ IsList
    /\ \E k \in DOMAIN response.body :
          /\ "error" \in DOMAIN response.body[k]
          /\ response.body[k].error.msg = "Request timed out"
    /\ \E k \in DOMAIN response.body : "emails" \in DOMAIN response.body[k]

\* C9: the record of a page on which extract_address finds an address
\* carries that address.
C9_AddressInRecord ==
    \A i \in Scraped :
        ("error" \notin DOMAIN task[i].result /\ AddressOf[task[i].page].some) =>
            /\ "address" \in DOMAIN task[i].result
            /\ task[i].result.address = AddressOf[task[i].page].val

Started(i) == i \in Tasks /\ task[i].phase \notin {"new", "queued"}

\* the tasks not yet started are the entries of the queue
QueueHoldsWaiting ==
    \A i \in Tasks : task[i].phase = "queued" <=> \E k \in DOMAIN queue : queue[k] = i

\* a task leaves the queue only as its head and with a worker free
StartsWhenWorkerFree ==
    \A i \in Tasks :
        (task[i].phase = "queued" /\ task'[i].phase # "queued") =>
            /\ Cardinality(Running) < MaxWorkers
            /\ i = Head(queue)

\* C10: at most 3 pipelines of a batch run at any moment and the other
\* submitted URLs are in the queue; a queued URL is started only in a step
\* taken with fewer than 3 running; and every submitted URL is eventually
\* started, provided time passes and every API call ends.
C10_BoundedPool ==
    /\ [](Cardinality(Running) <= MaxWorkers /\ QueueHoldsWaiting)
    /\ [][StartsWhenWorkerFree]_vars
    /\ \A i \in 1..MaxUrls : (i \in Tasks) ~> Started(i)

\* three pipelines are running and a URL waits in the queue
C10_Witness ==
    /\ Cardinality(Running) = MaxWorkers
    /\ queue # <<>>
    /\ \E i \in Tasks : task[i].phase = "draft"

\* the handler has produced the response of line 143 or of lines 145-148
Answered(r) == r.status \in {200, 500}

\* every task of the batch has finished: none is queued, none is running
AllFinished ==
    /\ queue = <<>>
    /\ \A i \in Tasks : task[i].phase = "done"

\* the step that produces the response is taken with every task finished
RespondsAfterTasks ==
    (~Answered(response) /\ Answered(response')) => AllFinished

\* C11: the handler produces its 200 or 500 response only in a step taken
\* with every task of the batch finished, also after the collection
\* deadline has passed; and while the response stands no task of the
\* batch is queued or running.
C11_ResponseAfterTasks ==
    /\ [](Answered(response) => AllFinished)
    /\ [][RespondsAfterTasks]_vars

\* the deadline passed with more tasks unfinished than there are workers,
\* so with one still queued, and the handler answered once all had ended
C11_Witness ==
    /\ Responded
    /\ response.status = 500
    /\ Cardinality(late) > MaxWorkers
    /\ AllFinished
    /\ timedOut

====
